---- MODULE Spec2Model ----
(***************************************************************************)
(* Model of app.py: the rule-based helpdesk triage (classification, steps, *)
(* escalation), the optional LLM collaborator with its defensive parsing   *)
(* and fallback, and the two submission paths (single ticket, bulk CSV).   *)
(* Python strings are TLA+ strings; `w in t` is substring containment.     *)
(***************************************************************************)
EXTENDS Integers, Sequences, FiniteSets, TLC

(***************************************************************************)
(* Bounds.                                                                 *)
(***************************************************************************)
\* largest number of data rows in an uploaded CSV
MaxRows == 2

(***************************************************************************)
(* Python string primitives.                                               *)
(***************************************************************************)
UpperLetters == "ABCDEFGHIJKLMNOPQRSTUVWXYZ"
LowerLetters == "abcdefghijklmnopqrstuvwxyz"
Digits == "0123456789"
Whitespace == {" ", "\t", "\n", "\r"}

CharAt(s, i) == SubSeq(s, i, i)

\* the two case mappings of the ASCII letters, as functions of the character
ToLower == [c \in {CharAt(UpperLetters, i) : i \in 1..26} |->
               CharAt(LowerLetters, CHOOSE i \in 1..26 : CharAt(UpperLetters, i) = c)]
ToUpper == [c \in {CharAt(LowerLetters, i) : i \in 1..26} |->
               CharAt(UpperLetters, CHOOSE i \in 1..26 : CharAt(LowerLetters, i) = c)]

IsUpper(c) == c \in DOMAIN ToLower
IsLower(c) == c \in DOMAIN ToUpper

LowerChar(c) == IF IsUpper(c) THEN ToLower[c] ELSE c

UpperChar(c) == IF IsLower(c) THEN ToUpper[c] ELSE c

\* F(x) with x evaluated once and bound to its value, as a Python local is
Bind(F(_), x) == CHOOSE y \in {F(v) : v \in {x}} : TRUE

\* str.lower()
RECURSIVE LowerFrom(_, _)
LowerFrom(s, i) ==
    IF i > Len(s) THEN "" ELSE LowerChar(CharAt(s, i)) \o LowerFrom(s, i + 1)

lower(s) == LowerFrom(s, 1)

\* str.upper()
RECURSIVE UpperFrom(_, _)
UpperFrom(s, i) ==
    IF i > Len(s) THEN "" ELSE UpperChar(CharAt(s, i)) \o UpperFrom(s, i + 1)

upper(s) == UpperFrom(s, 1)

\* str.title(): a letter is upper-cased when it does not follow a letter,
\* lower-cased when it does.
IsLetter(c) == IsUpper(c) \/ IsLower(c)

RECURSIVE TitleFrom(_, _)
TitleFrom(s, i) ==
    IF i > Len(s) THEN ""
    ELSE (IF i > 1 /\ IsLetter(CharAt(s, i - 1))
          THEN LowerChar(CharAt(s, i))
          ELSE UpperChar(CharAt(s, i)))
         \o TitleFrom(s, i + 1)

title(s) == TitleFrom(s, 1)

\* str.strip(): the part between the first and the last non-blank character
strip(s) ==
    LET solid == {i \in 1..Len(s) : CharAt(s, i) \notin Whitespace}
    IN IF solid = {} THEN ""
       ELSE SubSeq(s, CHOOSE i \in solid : \A j \in solid : i <= j,
                      CHOOSE i \in solid : \A j \in solid : i >= j)

\* `w in t` for strings
Contains(w, t) ==
    \E i \in 1..(Len(t) - Len(w) + 1) : SubSeq(t, i, i + Len(w) - 1) = w

\* sep.join(parts)
RECURSIVE JoinFrom(_, _, _)
JoinFrom(sep, parts, i) ==
    IF i > Len(parts) THEN ""
    ELSE IF i = Len(parts) THEN parts[i]
    ELSE parts[i] \o sep \o JoinFrom(sep, parts, i + 1)

join(sep, parts) == JoinFrom(sep, parts, 1)

\* str(n) for a non-negative integer
RECURSIVE IntStr(_)
IntStr(n) ==
    IF n < 10 THEN CharAt(Digits, n + 1)
    ELSE IntStr(n \div 10) \o CharAt(Digits, (n % 10) + 1)

(***************************************************************************)
(* The lookup tables.                                                      *)
(***************************************************************************)
\* iteration order of the KEYWORDS dict (insertion order)
CategoryOrder == <<"network", "hardware", "software", "account">>

KEYWORDS ==
    [network  |-> <<"wifi", "wi-fi", "ethernet", "latency", "vpn", "proxy", "dns", "network">>,
     hardware |-> <<"laptop", "keyboard", "mouse", "monitor", "battery", "charger", "power", "fan", "overheating">>,
     software |-> <<"update", "install", "error", "bug", "crash", "app", "software", "driver", "patch">>,
     account  |-> <<"login", "locked", "password", "mfa", "2fa", "permission", "access", "account">>]

\* the steps are opaque to the program; the non-breaking hyphens (U+2011) of
\* the source are written "-" here
SUGGESTIONS_init ==
    [network  |-> <<"Toggle Wi-Fi adapter off/on",
                    "Forget & re-add the SSID",
                    "Run ipconfig /flushdns (Windows) or dscacheutil -flushcache (macOS)",
                    "Test with Ethernet or mobile hotspot",
                    "Check VPN/Proxy settings">>,
     hardware |-> <<"Power cycle device",
                    "Check cables/ports",
                    "Run Device Manager/Drivers health check",
                    "Run OEM diagnostics",
                    "Open a replacement request if persistent">>,
     software |-> <<"Reboot and retry",
                    "Clear cache/temp files",
                    "Reinstall or rollback latest update",
                    "Check logs for recent errors",
                    "Open vendor ticket if reproducible">>,
     account  |-> <<"Attempt self-service password reset",
                    "Verify MFA device/time sync",
                    "Check group/role permissions",
                    "Escalate to IAM if blocked",
                    "Security check for suspicious activity">>]

red_flags == <<"data loss", "smoke", "burning", "security", "breach", "ransom", "admin down", "outage">>

persistent_words == <<"still", "again", "week", "days", "months">>

\* the data[...][:8] cut applied to the collaborator's steps
StepsCut == 8

VARIABLES use_llm, SUGGESTIONS, pc, tab, subject, body, csv, df, idx, rows,
          result, resp, ui, calls

vars == <<use_llm, SUGGESTIONS, pc, tab, subject, body, csv, df, idx, rows,
          result, resp, ui, calls>>

(***************************************************************************)
(* The rule-based functions.                                               *)
(***************************************************************************)
\* sum(1 for w in words if w in t)
Score(label, t) ==
    Cardinality({i \in 1..Len(KEYWORDS[label]) : Contains(KEYWORDS[label][i], t)})

\* max() keeping the last of the tied keys instead of the first
RECURSIVE MaxKey_last(_, _, _)
MaxKey_last(t, i, best) ==
    IF i > Len(CategoryOrder) THEN best
    ELSE IF Score(CategoryOrder[i], t) >= Score(best, t)
         THEN MaxKey_last(t, i + 1, CategoryOrder[i])
         ELSE MaxKey_last(t, i + 1, best)

\* max(scores, key=scores.get): the first key, in iteration order, whose
\* value is not exceeded by a later strictly greater one
RECURSIVE MaxKey(_, _, _)
MaxKey(t, i, best) ==
    IF i > Len(CategoryOrder) THEN best
    ELSE IF Score(CategoryOrder[i], t) > Score(best, t)
         THEN MaxKey(t, i + 1, CategoryOrder[i])
         ELSE MaxKey(t, i + 1, best)

rule_based_classify(text) ==
    LET Pick(t) ==
            IF \E i \in 1..Len(CategoryOrder) : Score(CategoryOrder[i], t) > 0
            THEN MaxKey(t, 2, CategoryOrder[1])
            ELSE "software"
    IN Bind(Pick, lower(text))

\* SUGGESTIONS.get(category, []) instead of the software default
rule_based_steps_empty_default(category) ==
    IF category \in DOMAIN SUGGESTIONS THEN SUGGESTIONS[category] ELSE <<>>

rule_based_steps(category) ==
    IF category \in DOMAIN SUGGESTIONS THEN SUGGESTIONS[category]
    ELSE SUGGESTIONS["software"]

\* the persistence indicator OR-ed into the decision
rule_based_escalation_persistent(text, category) ==
    LET Decide(t) ==
            LET long_wait == \E i \in 1..Len(red_flags) : Contains(red_flags[i], t)
                persistent == \E i \in 1..Len(persistent_words) :
                                  Contains(persistent_words[i], t)
            IN long_wait \/ persistent \/ category \in {"hardware", "account"}
    IN Bind(Decide, lower(text))

rule_based_escalation(text, category) ==
    LET Decide(t) ==
            LET long_wait == \E i \in 1..Len(red_flags) : Contains(red_flags[i], t)
                persistent == \E i \in 1..Len(persistent_words) :
                                  Contains(persistent_words[i], t)
            IN long_wait \/ category \in {"hardware", "account"}
    IN Bind(Decide, lower(text))

(***************************************************************************)
(* Values exchanged with the collaborator and read from the CSV.           *)
(* A Python value is a tagged record; a JSON object is a function from the *)
(* keys it has to values.                                                  *)
(***************************************************************************)
PStr(s) == [t |-> "str", s |-> s]
PInt(n) == [t |-> "int", n |-> n]
PBool(b) == [t |-> "bool", b |-> b]
PNone == [t |-> "none"]
PNaN == [t |-> "nan"]
PList(l) == [t |-> "list", l |-> l]
PDict(o) == [t |-> "dict", o |-> o]

\* repr(v) of an element inside a list
Repr(v) ==
    CASE v.t = "str" -> "'" \o v.s \o "'"
      [] v.t = "int" -> IntStr(v.n)
      [] v.t = "bool" -> IF v.b THEN "True" ELSE "False"
      [] v.t = "none" -> "None"
      [] v.t = "nan" -> "nan"

\* str(v)
PyStr(v) ==
    CASE v.t = "str" -> v.s
      [] v.t = "list" -> "[" \o join(", ", [i \in 1..Len(v.l) |-> Repr(v.l[i])]) \o "]"
      [] OTHER -> Repr(v)

\* bool(v)
PyBool(v) ==
    CASE v.t = "str" -> v.s # ""
      [] v.t = "int" -> v.n # 0
      [] v.t = "bool" -> v.b
      [] v.t = "none" -> FALSE
      [] v.t = "nan" -> TRUE
      [] v.t = "list" -> v.l # <<>>

\* `for s in v`: a list yields its items, a string its characters, anything
\* else raises TypeError
Iterable(v) == v.t \in {"list", "str"}

Items(v) ==
    IF v.t = "list" THEN v.l ELSE [i \in 1..Len(v.s) |-> PStr(CharAt(v.s, i))]

\* seq[:n]
Take(seq, n) == SubSeq(seq, 1, IF Len(seq) < n THEN Len(seq) ELSE n)

\* data.get(key, default)
DictGet(o, key, default) == IF key \in DOMAIN o THEN o[key] ELSE default

NoResult == [none |-> TRUE]
NoResp == [kind |-> "none"]
NoFile == [header |-> <<>>, rows |-> <<>>]

(***************************************************************************)
(* The collaborator call and its defensive parsing.                        *)
(*   [kind |-> "raise"]    create() raises (network or API error)          *)
(*   [kind |-> "timeout"]  the client's request timeout expires: raises    *)
(*   [kind |-> "empty"]    the message has no content (None)               *)
(*   [kind |-> "text"]     content that json.loads rejects                 *)
(*   [kind |-> "json", data |-> v]  content that json.loads parses to v    *)
(***************************************************************************)
\* the statements of the try block raise an exception on response r
TryRaises(r) ==
    \/ r.kind \in {"raise", "timeout", "empty", "text"}
    \/ /\ r.kind = "json"
       /\ \/ r.data.t # "dict"
          \/ /\ "steps" \in DOMAIN r.data.o
             /\ ~Iterable(r.data.o["steps"])

\* the class of that exception
Raised(r) ==
    CASE r.kind = "raise" -> "APIConnectionError"
      [] r.kind = "timeout" -> "APITimeoutError"
      [] r.kind = "empty" -> "AttributeError"
      [] r.kind = "text" -> "JSONDecodeError"
      [] r.kind = "json" /\ r.data.t # "dict" -> "AttributeError"
      [] OTHER -> "TypeError"

\* `except Exception` catches every one of these classes
Handles_only_json(e) == e = "JSONDecodeError"

Handles(e) ==
    e \in {"APIConnectionError", "APITimeoutError", "AttributeError",
           "JSONDecodeError", "TypeError"}

\* lines 95-99: the parsed dict with its four fields overwritten; any other
\* key the collaborator sent stays in the returned dict
TryResult(data) ==
    LET steps == Items(DictGet(data.o, "steps", PList(<<>>)))
        set == [category |-> lower(PyStr(DictGet(data.o, "category", PStr("software")))),
                steps    |-> Take([i \in 1..Len(steps) |-> PyStr(steps[i])], StepsCut),
                escalate |-> PyBool(DictGet(data.o, "escalate", PBool(FALSE))),
                summary  |-> strip(PyStr(DictGet(data.o, "summary", PStr(""))))]
    IN [k \in (DOMAIN data.o) \cup (DOMAIN set) |->
            IF k \in DOMAIN set THEN set[k] ELSE data.o[k]]

\* an except branch that answers with the default category without classifying
ExceptResult_default(s, b) ==
    [category |-> "software",
     steps    |-> rule_based_steps("software"),
     escalate |-> rule_based_escalation(s \o " " \o b, "software"),
     summary  |-> title("software")
                  \o " issue detected. Suggested standard troubleshooting steps applied."]

\* lines 100-107: the except branch
ExceptResult(s, b) ==
    LET Record(category) ==
            [category |-> category,
             steps    |-> rule_based_steps(category),
             escalate |-> rule_based_escalation(s \o " " \o b, category),
             summary  |-> title(category)
                          \o " issue detected. Suggested standard troubleshooting steps applied."]
    IN Bind(Record, rule_based_classify(s \o " " \o b))

llm_analyze(s, b, r) ==
    IF TryRaises(r) THEN ExceptResult(s, b) ELSE TryResult(r.data)

\* lines 112-118: the rule-based path of analyze_ticket
RuleResult(s, b) ==
    LET Record(category) ==
            [category |-> category,
             steps    |-> rule_based_steps(category),
             escalate |-> rule_based_escalation(s \o " " \o b, category),
             summary  |-> title(category)
                          \o " issue. Applying baseline playbook. Escalate if unresolved."]
    IN Bind(Record, rule_based_classify(s \o " " \o b))

(***************************************************************************)
(* The bulk path: header normalisation and row access.                     *)
(***************************************************************************)
\* [c.strip().lower() for c in df.columns]
NormalizeHeader(header) == [i \in 1..Len(header) |-> lower(strip(header[i]))]

\* a check that asks for the body column only
needed_body_only == {"body"}

needed == {"subject", "body"}

Columns(d) == {d.columns[i] : i \in 1..Len(d.columns)}

\* r.get(name, default) on row r of dataframe d
RowGet(d, r, name, default) ==
    IF name \in Columns(d)
    THEN r[CHOOSE i \in 1..Len(d.columns) : d.columns[i] = name]
    ELSE default

\* a loop that reads the subject of the first row on every iteration
RowSubject_first(d, i) == PyStr(RowGet(d, d.rows[1], "subject", PStr("")))

\* the arguments analyze_ticket gets for row i
RowSubject(d, i) == PyStr(RowGet(d, d.rows[i], "subject", PStr("")))
RowBody(d, i) == PyStr(RowGet(d, d.rows[i], "body", PStr("")))

\* lines 169-176: the output row
OutRow(d, r, res) ==
    [id       |-> RowGet(d, r, "id", PStr("")),
     subject  |-> RowGet(d, r, "subject", PStr("")),
     category |-> res.category,
     escalate |-> res.escalate,
     summary  |-> res.summary,
     steps    |-> join(" | ", res.steps)]

(***************************************************************************)
(* Inputs.                                                                 *)
(***************************************************************************)
Subjects ==
    {"", "WIFI down", "Wi-Fi not connecting", "Laptop overheating", "Locked out",
     "happy days", "smoke again"}

Bodies ==
    {"", "DNS fails, VPN also down", "fan noise, battery draining fast",
     "password reset failed, MFA code rejected", "still broken", "wifi laptop",
     "Security breach"}

NineSteps == [i \in 1..(StepsCut + 1) |-> PStr("step " \o IntStr(i))]

Responses ==
    {[kind |-> "raise"], [kind |-> "timeout"], [kind |-> "empty"], [kind |-> "text"],
     [kind |-> "json", data |-> PList(<<PStr("network")>>)],
     [kind |-> "json", data |-> PDict([category |-> PStr("Printer"),
                                       steps    |-> PList(NineSteps),
                                       escalate |-> PBool(TRUE),
                                       summary  |-> PStr(" Paper jam. ")])],
     [kind |-> "json", data |-> PDict([note |-> PStr("n/a")])],
     [kind |-> "json", data |-> PDict([category |-> PInt(5),
                                       steps    |-> PStr("ab"),
                                       escalate |-> PStr("false"),
                                       summary  |-> PNone])],
     [kind |-> "json", data |-> PDict([category |-> PStr("hardware"),
                                       steps    |-> PNone])]}

\* uploaded headers; after normalisation the names of one header are distinct
Headers ==
    {<<" Subject ", "BODY">>, <<"Body", "ID", "subject ">>,
     <<"id", "subject">>, <<"title", "body">>, <<"Id", "Summary", "Text">>}

\* data rows of n cells; an empty cell is read as NaN
RowsOf(n) ==
    IF n = 2
    THEN {<<PNaN, PNaN>>,
          <<PStr("Laptop overheating"), PNaN>>,
          <<PStr("WIFI down"), PStr("smoke again")>>}
    ELSE {<<PNaN, PNaN, PNaN>>,
          <<PStr("Laptop overheating"), PStr("8"), PStr("fan noise")>>,
          <<PStr("still broken"), PNaN, PStr("WIFI down")>>}

RECURSIVE SeqsUpTo(_, _)
SeqsUpTo(S, n) ==
    IF n = 0 THEN {<<>>}
    ELSE LET shorter == SeqsUpTo(S, n - 1)
         IN shorter \cup {Append(q, x) : q \in {q \in shorter : Len(q) = n - 1}, x \in S}

Files ==
    UNION {{[header |-> h, rows |-> rs] : rs \in SeqsUpTo(RowsOf(Len(h)), MaxRows)} :
           h \in Headers}

(***************************************************************************)
(* State machine: one run of the script.  Streamlit re-executes the whole  *)
(* script, tables included, for every interaction, so a behaviour is the   *)
(* run that one submission triggers; the bulk loop is where several        *)
(* analyses follow each other against the same tables.                     *)
(***************************************************************************)
Init ==
    /\ \E key \in BOOLEAN, imported \in BOOLEAN : use_llm = (key /\ imported)
    /\ SUGGESTIONS = SUGGESTIONS_init
    /\ pc = "idle"
    /\ tab = "none"
    /\ subject = ""
    /\ body = ""
    /\ csv = NoFile
    /\ df = [columns |-> <<>>, rows |-> <<>>]
    /\ idx = 0
    /\ rows = <<>>
    /\ result = NoResult
    /\ resp = NoResp
    /\ ui = {}
    /\ calls = 0

\* "Analyze Ticket" pressed on the single tab (lines 130-134)
SubmitSingle(s, b) ==
    /\ pc = "idle"
    /\ tab' = "single"
    /\ csv' = NoFile
    /\ df' = [columns |-> <<>>, rows |-> <<>>]
    /\ idx' = 0
    /\ rows' = <<>>
    /\ result' = NoResult
    /\ resp' = NoResp
    /\ IF s = "" /\ b = ""
       THEN /\ ui' = {"warning"}
            /\ pc' = "done"
            /\ calls' = 0
            /\ subject' = ""
            /\ body' = ""
       ELSE /\ ui' = {}
            /\ pc' = "analyze"
            /\ calls' = 1
            /\ subject' = s
            /\ body' = b
    /\ UNCHANGED <<use_llm, SUGGESTIONS>>

\* a CSV uploaded on the bulk tab (lines 158-168)
SubmitBulk(file) ==
    /\ pc = "idle"
    /\ tab' = "bulk"
    /\ csv' = file
    /\ idx' = 0
    /\ rows' = <<>>
    /\ result' = NoResult
    /\ resp' = NoResp
    /\ LET d == [columns |-> NormalizeHeader(file.header), rows |-> file.rows]
       IN /\ df' = d
          /\ IF ~(needed \subseteq Columns(d))
             THEN /\ ui' = {"error"}
                  /\ pc' = "done"
                  /\ calls' = 0
                  /\ subject' = ""
                  /\ body' = ""
             ELSE IF d.rows = <<>>
             THEN /\ ui' = {"dataframe", "download_csv"}
                  /\ pc' = "done"
                  /\ calls' = 0
                  /\ subject' = ""
                  /\ body' = ""
             ELSE /\ ui' = {}
                  /\ pc' = "analyze"
                  /\ calls' = 1
                  /\ subject' = RowSubject(d, 1)
                  /\ body' = RowBody(d, 1)
    /\ UNCHANGED <<use_llm, SUGGESTIONS>>

\* analyze_ticket in rule-based mode (lines 110, 112-118)
AnalyzeRules ==
    /\ pc = "analyze"
    /\ ~use_llm
    /\ result' = RuleResult(subject, body)
    /\ pc' = "return"
    /\ UNCHANGED <<use_llm, SUGGESTIONS, tab, subject, body, csv, df, idx, rows,
                   resp, ui, calls>>

\* analyze_ticket in LLM mode: the request is sent (lines 110-111, 87-91)
LlmCall ==
    /\ pc = "analyze"
    /\ use_llm
    /\ pc' = "llm_await"
    /\ UNCHANGED <<use_llm, SUGGESTIONS, tab, subject, body, csv, df, idx, rows,
                   result, resp, ui, calls>>

\* the blocking call ends with response r; llm_analyze returns, or an
\* exception its handler does not catch aborts the run (lines 92-107)
LlmRespond(r) ==
    /\ pc = "llm_await"
    /\ resp' = r
    /\ IF TryRaises(r) /\ ~Handles(Raised(r))
       THEN /\ result' = NoResult
            /\ pc' = "crashed"
       ELSE /\ result' = llm_analyze(subject, body, r)
            /\ pc' = "return"
    /\ UNCHANGED <<use_llm, SUGGESTIONS, tab, subject, body, csv, df, idx, rows,
                   ui, calls>>

\* the single tab renders the result and the JSON download (lines 135-153)
RenderSingle ==
    /\ pc = "return"
    /\ tab = "single"
    /\ ui' = {"result", "download_json"}
    /\ pc' = "done"
    /\ UNCHANGED <<use_llm, SUGGESTIONS, tab, subject, body, csv, df, idx, rows,
                   result, resp, calls>>

\* rows.append(...) and the loop's next iteration, or the table and the CSV
\* download after the last row (lines 167-184)
AppendRow ==
    /\ pc = "return"
    /\ tab = "bulk"
    /\ rows' = Append(rows, OutRow(df, df.rows[idx + 1], result))
    /\ idx' = idx + 1
    /\ IF idx + 1 < Len(df.rows)
       THEN /\ subject' = RowSubject(df, idx + 2)
            /\ body' = RowBody(df, idx + 2)
            /\ calls' = calls + 1
            /\ result' = NoResult
            /\ pc' = "analyze"
            /\ ui' = ui
       ELSE /\ ui' = {"dataframe", "download_csv"}
            /\ pc' = "done"
            /\ UNCHANGED <<subject, body, calls, result>>
    /\ UNCHANGED <<use_llm, SUGGESTIONS, tab, csv, df, resp>>

Next ==
    \/ \E s \in Subjects, b \in Bodies : SubmitSingle(s, b)
    \/ \E file \in Files : SubmitBulk(file)
    \/ AnalyzeRules
    \/ LlmCall
    \/ \E r \in Responses : LlmRespond(r)
    \/ RenderSingle
    \/ AppendRow

Spec == Init /\ [][Next]_vars

\* the steps the script takes by itself once a submission is in
Run ==
    \/ AnalyzeRules
    \/ LlmCall
    \/ \E r \in Responses : LlmRespond(r)
    \/ RenderSingle
    \/ AppendRow

\* The script runs to completion, and the blocking collaborator call always
\* ends: with a response, or with the exception the client raises on a network
\* error or when its request timeout expires.  At most one of the steps of Run
\* is enabled in a state, so one fairness condition covers them all.
FairSpec == Spec /\ WF_vars(Run)

(***************************************************************************)
(* Vocabulary of the properties.                                           *)
(***************************************************************************)
Categories == {"network", "hardware", "software", "account"}

ResultKeys == {"category", "steps", "escalate", "summary"}

IsAnalysisResult(res) == ResultKeys \subseteq DOMAIN res

\* the text analyze_ticket works on
Text == subject \o " " \o body

\* an invocation of analyze_ticket is in progress / has just returned
Analysing == pc \in {"analyze", "llm_await"}
Returned == pc = "return"

\* the result at hand was computed by the rule-based path of analyze_ticket
ByRules == Returned /\ ~use_llm

\* the collaborator call failed: exception, timeout, no or non-JSON content
CollaboratorFailed == resp.kind \in {"raise", "timeout", "empty", "text"}

HasRedFlag(text) ==
    \E f \in {red_flags[i] : i \in 1..Len(red_flags)} : Contains(f, lower(text))

HasPersistence(text) ==
    \E w \in {persistent_words[i] : i \in 1..Len(persistent_words)} :
        Contains(w, lower(text))

\* categories other than c that come earlier in the table order
Earlier(c) ==
    {CategoryOrder[j] : j \in {j \in 1..Len(CategoryOrder) :
        \E k \in 1..Len(CategoryOrder) : CategoryOrder[k] = c /\ j < k}}

\* the uploaded header has column `name` once names are stripped and lower-cased
HeaderHas(header, name) == \E i \in 1..Len(header) : lower(strip(header[i])) = name

\* the raw cell of uploaded row i under column `name`
RawCell(i, name) ==
    csv.rows[i][CHOOSE j \in 1..Len(csv.header) : lower(strip(csv.header[j])) = name]

\* its text, an empty cell reading as blankAs
CellText(i, name, blankAs) ==
    IF RawCell(i, name).t = "nan" THEN blankAs ELSE RawCell(i, name).s

ValidBatch == tab = "bulk" /\ HeaderHas(csv.header, "subject") /\ HeaderHas(csv.header, "body")

(***************************************************************************)
(* Properties.                                                             *)
(***************************************************************************)

\* C1: every result analyze_ticket returns, in either mode, has a category
\* among the four known ones and non-empty steps that are a SuggestionTable
\* entry.
C1_ResultWellFormed ==
    Returned =>
        /\ result.category \in Categories
        /\ result.steps # <<>>
        /\ \E c \in Categories : result.steps = SUGGESTIONS_init[c]

\* C2 (as stated): when the collaborator call fails, analyze_ticket raises
\* nothing and returns exactly the record of the deterministic path, summary
\* included.
C2_FallbackIsDeterministicRecord ==
    (use_llm /\ CollaboratorFailed /\ pc \in {"return", "crashed"}) =>
        /\ pc = "return"
        /\ result = RuleResult(subject, body)

\* C2 (amended): when the collaborator call fails, analyze_ticket raises
\* nothing and returns the deterministic path's category, steps and escalate;
\* the summary is the fallback's own sentence, "<Category> issue detected.
\* Suggested standard troubleshooting steps applied."
C2_FallbackFields ==
    (use_llm /\ CollaboratorFailed /\ pc \in {"return", "crashed"}) =>
        /\ pc = "return"
        /\ DOMAIN result = ResultKeys
        /\ result.category = RuleResult(subject, body).category
        /\ result.steps = RuleResult(subject, body).steps
        /\ result.escalate = RuleResult(subject, body).escalate
        /\ result.summary = title(result.category)
               \o " issue detected. Suggested standard troubleshooting steps applied."
        /\ result.summary # RuleResult(subject, body).summary

C2_Witness ==
    /\ use_llm /\ CollaboratorFailed /\ Returned
    /\ resp.kind = "text"
    /\ result.category = "account"
    /\ result.escalate

\* C3: the category rule_based_classify returns has the highest trigger count
\* of the lower-cased text, is the first such category in the order network,
\* hardware, software, account, and is software when no trigger occurs; the
\* result is the same for the upper-cased and the lower-cased text, and a text
\* with triggers of one category only gets that category.
C3_Classify ==
    ByRules =>
        LET t == lower(Text)
            c == result.category
            hit == {k \in Categories : Score(k, t) > 0}
        IN /\ c \in Categories
           /\ hit = {} => c = "software"
           /\ hit # {} =>
                /\ \A k \in Categories : Score(k, t) <= Score(c, t)
                /\ \A k \in Earlier(c) : Score(k, t) < Score(c, t)
           /\ \A k \in Categories : hit = {k} => c = k
           /\ rule_based_classify(upper(Text)) = c
           /\ rule_based_classify(lower(Text)) = c

C3_Witness ==
    /\ ByRules
    /\ Text # lower(Text)
    /\ Score("network", lower(Text)) = 2
    /\ Score("hardware", lower(Text)) = 2
    /\ result.category = "network"

C5_FieldDefaults ==
    (Returned /\ use_llm /\ resp.kind = "json" /\ resp.data.t = "dict") =>
        LET o == resp.data.o
            hasStr(k) == k \in DOMAIN o /\ o[k].t = "str"
            strList(k) == /\ k \in DOMAIN o
                          /\ o[k].t = "list"
                          /\ \A i \in 1..Len(o[k].l) : o[k].l[i].t = "str"
        IN /\ result.category = IF hasStr("category") THEN lower(o["category"].s) ELSE "software"
           /\ result.steps = IF strList("steps")
                             THEN Take([i \in 1..Len(o["steps"].l) |-> o["steps"].l[i].s], StepsCut)
                             ELSE <<>>
           /\ result.escalate = IF "escalate" \in DOMAIN o /\ o["escalate"].t = "bool"
                                THEN o["escalate"].b ELSE FALSE
           /\ hasStr("summary") \/ result.summary = ""

\* C6: rule_based_steps returns a non-empty sequence for every argument, the
\* category's own entry for a known category and the software entry otherwise,
\* and the same sequence in every state, whatever was analysed before.
C6_Steps ==
    \A c \in Categories \cup {"printer", "Network", ""} :
        /\ rule_based_steps(c) # <<>>
        /\ rule_based_steps(c) =
              IF c \in Categories THEN SUGGESTIONS_init[c] ELSE SUGGESTIONS_init["software"]

C6_Witness ==
    /\ Returned
    /\ idx >= 1
    /\ rows[idx].category # result.category
    /\ result.steps = SUGGESTIONS_init["hardware"]

C8_InvalidBatch ==
    (tab = "bulk" /\ ~(HeaderHas(csv.header, "subject") /\ HeaderHas(csv.header, "body"))) =>
        /\ pc = "done"
        /\ ui = {"error"}
        /\ calls = 0
        /\ rows = <<>>
        /\ result = NoResult

C8_Witness ==
    /\ tab = "bulk"
    /\ ~HeaderHas(csv.header, "subject")
    /\ HeaderHas(csv.header, "body")
    /\ Len(csv.rows) = MaxRows
    /\ ui = {"error"}

\* C9: a ticket supplied with no subject and no body is never analysed, on the
\* single path and on the bulk path alike.
C9_EmptyNeverAnalysed ==
    (Analysing \/ Returned) =>
        IF tab = "single"
        THEN ~(subject = "" /\ body = "")
        ELSE ~(RawCell(idx + 1, "subject").t = "nan" /\ RawCell(idx + 1, "body").t = "nan")

\* C10: in a valid batch the rows are analysed one at a time in input order;
\* the output has one row per analysed input row in the same order, and in
\* rule-based mode each output row is what analyze_ticket returns for that
\* row's subject and body alone.
C10_BulkInOrder ==
    ValidBatch =>
        /\ Len(rows) = idx
        /\ idx <= Len(csv.rows)
        /\ calls = idx + (IF Analysing \/ Returned THEN 1 ELSE 0)
        /\ pc = "done" => idx = Len(csv.rows) /\ ui = {"dataframe", "download_csv"}
        /\ (Analysing \/ Returned) =>
              /\ subject = CellText(idx + 1, "subject", "nan")
              /\ body = CellText(idx + 1, "body", "nan")
        /\ \A i \in 1..Len(rows) :
              /\ rows[i].subject = RawCell(i, "subject")
              /\ ~use_llm =>
                    \A blank \in {"", "nan"} :
                       LET alone == RuleResult(CellText(i, "subject", blank),
                                               CellText(i, "body", blank))
                       IN /\ rows[i].category = alone.category
                          /\ rows[i].escalate = alone.escalate
                          /\ rows[i].summary = alone.summary
                          /\ rows[i].steps = join(" | ", alone.steps)

C10_Witness ==
    /\ ValidBatch
    /\ ~use_llm
    /\ pc = "done"
    /\ Len(rows) = MaxRows
    /\ rows[1].category = "hardware"
    /\ rows[MaxRows].category = "network"

====
